---- MODULE Spec2Model ----
(***************************************************************************)
(* Vulkan RHI frame-graph executer (FrameGraphExecuter.cpp) and semaphore  *)
(* tracker (SemaphoreTracker.cpp).                                         *)
(*                                                                         *)
(* BeginInternal is modelled one loop iteration per step.  The scope list  *)
(* of the frame graph is the input; an iteration reads only the current    *)
(* scope, scopePrev and scopeNext, so the list is revealed one scope ahead *)
(* of the loop: `scopes` holds the scopes read so far.                     *)
(***************************************************************************)
EXTENDS Integers, Sequences, FiniteSets, TLC

VARIABLES
    \* FrameGraphExecuter members and the frame graph
    frameGraph,                 \* the kinds of scope the frame graph is built from
    scopes,                     \* frameGraph.GetScopes(), as far as it was read
    m_frameGraphExecuterData,   \* per-device platform limits
    m_jobPolicy,                \* GetJobPolicy()
    useSemaphoreTrackers,       \* device feature m_signalFenceFromCPU
    groups,                     \* GetGroups(): the execute groups, in creation order
    m_groupHandlers,            \* group id -> handler
    \* locals of BeginInternal
    pc,
    it,                         \* position of the loop in scopes (1-based)
    scopePrev,                  \* index of the previous scope, 0 for nullptr
    mergedScopes,               \* indices of the scopes of the running merge set
    mergedHardwareQueueClass,
    mergedGroupCost,
    mergedSwapchainCount,
    mergedDeviceIndex,
    currentSemaphoreHandle,     \* m_countTrackers of the current handle, 0 for none
    userFencesSignalledMap,
    numUnwaitedFences,
    swapChainTracker,           \* per presented swap chain: <<scope, tracker index>>
    \* SemaphoreTrackerCollection
    m_trackers,                 \* sequence of [m_semaphoreCounter, m_signalledSemaphoreCounter]
    m_semaphoreCount,
    \* execution of the groups by the worker threads
    m_isComplete,               \* per execute group: recording has finished
    m_isExecuted,               \* per handler (by group id): End() has run
    endCalls,                   \* per handler (by group id): number of End() invocations
    workers,                    \* per execute group: position of the thread that runs it
    \* use of a tracker collection by threads
    phase,
    handles,                    \* m_countTrackers of the handles, in creation order
    owed,                       \* per handle: semaphores counted under it, not yet signalled
    m_lock,                     \* per tracker: the thread holding m_lock, or "free"
    signalers,                  \* threads in SemaphoreTrackerHandle::SignalSemaphores
    waiters,                    \* threads in SemaphoreTracker::WaitForSignalAllSemaphores
    \* InitInternal
    descriptor,                 \* m_platformLimitsDescriptors: device index -> descriptor
    visited,                    \* device indices the loop of InitInternal has passed
    initResult                  \* result code InitInternal returned, "None" before

beginVars == <<frameGraph, scopes, m_frameGraphExecuterData, m_jobPolicy, useSemaphoreTrackers,
               groups, m_groupHandlers, pc, it, scopePrev, mergedScopes,
               mergedHardwareQueueClass, mergedGroupCost, mergedSwapchainCount,
               mergedDeviceIndex, currentSemaphoreHandle, userFencesSignalledMap,
               numUnwaitedFences, swapChainTracker>>

collectionVars == <<m_trackers, m_semaphoreCount>>

execVars == <<m_isComplete, m_isExecuted, endCalls, workers>>

threadVars == <<phase, handles, owed, m_lock, signalers, waiters>>

initVars == <<descriptor, visited, initResult>>

vars == <<beginVars, collectionVars, execVars, threadVars, initVars>>

----------------------------------------------------------------------------
\* Bounds of the model

\* Longest scope list handed to Begin.
MaxScopes == 4

\* Longest scope list of a frame whose groups are then executed.
MaxExecScopes == 3
MaxExampleScopes == 3

\* Most trackers of a collection used by threads, and most semaphores counted.
MaxTrackers == 2

MaxSemaphores == 2

----------------------------------------------------------------------------
\* Program constants and arithmetic

\* RHI::MultiDevice::InvalidDeviceIndex
InvalidDeviceIndex == -1

Max(a, b) == IF a >= b THEN a ELSE b

\* AZ::DivideAndRoundUp.  The uint32_t quantities of the model stay far below
\* 2^32, so no sum or product wraps.
DivideAndRoundUp(value, divisor) == (value + divisor - 1) \div divisor

Last(s) == s[Len(s)]

RECURSIVE SumSeq(_)
SumSeq(s) == IF s = <<>> THEN 0 ELSE s[1] + SumSeq(Tail(s))

----------------------------------------------------------------------------
\* Inputs: devices, platform limits and scopes

Devices == {0, 1}

\* Per-device FrameGraphExecuterData as Init stores it.  DefaultLimits keeps the
\* proportions of a usual configuration (items cost 1, attachments cost more);
\* AttachmentOnlyLimits weighs only attachments and allows one command list
\* per scope.
DefaultLimits ==
    [m_commandListCostThresholdMin |-> 2, m_commandListsPerScopeMax |-> 2,
     m_itemCost |-> 1, m_attachmentCost |-> 2, m_swapChainsPerCommandList |-> 1]

AttachmentOnlyLimits ==
    [m_commandListCostThresholdMin |-> 1, m_commandListsPerScopeMax |-> 1,
     m_itemCost |-> 0, m_attachmentCost |-> 1, m_swapChainsPerCommandList |-> 1]

LimitsChoices ==
    { [d \in Devices |-> DefaultLimits],
      [d \in Devices |-> IF d = 0 THEN AttachmentOnlyLimits ELSE DefaultLimits] }

\* A scope without its frame-graph group id.
DefaultScope ==
    [queue |-> "Graphics", dev |-> 0, items |-> 1, atts |-> 0,
     waitSem |-> 0, sigSem |-> 0, waitFences |-> {}, sigFences |-> {}, swap |-> 0]

ZeroCost(queue) == [DefaultScope EXCEPT !.queue = queue, !.items = 0]

LargeScope == [DefaultScope EXCEPT !.items = 3]

\* Scopes that differ in queue class, device and cost.
PartitionKinds ==
    { DefaultScope, ZeroCost("Graphics"), ZeroCost("Compute"),
      [DefaultScope EXCEPT !.queue = "Compute"],
      [DefaultScope EXCEPT !.items = 2], LargeScope,
      [DefaultScope EXCEPT !.dev = 1],
      [DefaultScope EXCEPT !.items = 3, !.atts = 2] }

\* Scopes that differ in what they wait for, signal and present.
SyncKinds ==
    { DefaultScope, LargeScope,
      [DefaultScope EXCEPT !.waitSem = 1],
      [DefaultScope EXCEPT !.sigSem = 1],
      [DefaultScope EXCEPT !.waitFences = {"F1"}],
      [DefaultScope EXCEPT !.sigFences = {"F1"}],
      [DefaultScope EXCEPT !.swap = 1],
      [DefaultScope EXCEPT !.swap = 2] }

\* Scopes that differ in the fences they signal and wait for and in whether
\* they present.
FenceKinds ==
    { DefaultScope,
      [DefaultScope EXCEPT !.sigFences = {"F1"}],
      [DefaultScope EXCEPT !.sigFences = {"F1", "F2"}],
      [DefaultScope EXCEPT !.waitFences = {"F1"}],
      [DefaultScope EXCEPT !.waitFences = {"F2"}],
      [DefaultScope EXCEPT !.sigFences = {"F1"}, !.waitFences = {"F1"}],
      [DefaultScope EXCEPT !.swap = 1],
      [DefaultScope EXCEPT !.sigFences = {"F2"}, !.swap = 2] }

\* Kinds that also occur as a member of a subpass chain.
ChainKinds == { DefaultScope, LargeScope }

\* A frame graph: the kinds its scopes are of.
PartitionGraph ==
    [kinds |-> PartitionKinds, chain |-> ChainKinds, recur |-> FALSE,
     maxScopes |-> MaxScopes]

SyncGraph ==
    [kinds |-> SyncKinds, chain |-> {DefaultScope}, recur |-> FALSE,
     maxScopes |-> MaxScopes]

FenceGraph ==
    [kinds |-> FenceKinds, chain |-> {DefaultScope}, recur |-> FALSE,
     maxScopes |-> MaxScopes]

ExecGraph ==
    [kinds |-> {DefaultScope, LargeScope}, chain |-> {DefaultScope}, recur |-> FALSE,
     maxScopes |-> MaxExecScopes]

\* A frame graph in which the group id of an earlier scope may come back
\* after scopes of other group ids.
RecurGraph ==
    [kinds |-> {DefaultScope, LargeScope}, chain |-> {DefaultScope}, recur |-> TRUE,
     maxScopes |-> MaxExecScopes]

\* The worked example of the specification: threshold 20, scopes of cost 10,
\* 15 and 5 on one device, graphics, without semaphores or fences.
ExampleLimits ==
    [m_commandListCostThresholdMin |-> 20, m_commandListsPerScopeMax |-> 2,
     m_itemCost |-> 1, m_attachmentCost |-> 2, m_swapChainsPerCommandList |-> 1]

ExampleA == [DefaultScope EXCEPT !.items = 10]

ExampleB == [DefaultScope EXCEPT !.items = 15]

ExampleC == [DefaultScope EXCEPT !.items = 5]

ExampleGraph ==
    [kinds |-> {ExampleA, ExampleB, ExampleC}, chain |-> {ExampleC}, recur |-> FALSE,
     maxScopes |-> MaxExampleScopes]

WithGroupId(kind, gid) ==
    [queue |-> kind.queue, dev |-> kind.dev, items |-> kind.items, atts |-> kind.atts,
     waitSem |-> kind.waitSem, sigSem |-> kind.sigSem, waitFences |-> kind.waitFences,
     sigFences |-> kind.sigFences, swap |-> kind.swap, gid |-> gid]

\* The scopes that may follow the scopes read so far: any kind under a fresh
\* group id, a chain kind continuing the group id of the last scope and, in a
\* graph with recurring group ids, any kind under the group id of an earlier
\* scope.
FollowingScopes(graph, read) ==
    { WithGroupId(k, Len(read) + 1) : k \in graph.kinds }
      \cup (IF read = <<>> THEN {}
            ELSE { WithGroupId(k, Last(read).gid) : k \in graph.chain })
      \cup (IF graph.recur
            THEN { WithGroupId(k, read[i].gid) : k \in graph.kinds, i \in 1..Len(read) }
            ELSE {})

----------------------------------------------------------------------------
\* SemaphoreTracker and SemaphoreTrackerCollection (sequential operations)

\* SemaphoreTracker::SemaphoreTracker
NewTracker(initialNumberOfSemaphores) ==
    [m_semaphoreCounter |-> initialNumberOfSemaphores, m_signalledSemaphoreCounter |-> 0]

\* SemaphoreTracker::AddSemaphores
TrackerAddSemaphores(tracker, numSemaphores) ==
    [tracker EXCEPT !.m_semaphoreCounter = @ + numSemaphores]

\* Mutant of CollectionAddSemaphores: every tracker of the list is raised.
CollectionAddSemaphoresToAll(trackers, numSemaphores) ==
    [k \in 1..Len(trackers) |-> TrackerAddSemaphores(trackers[k], numSemaphores)]

\* SemaphoreTrackerCollection::AddSemaphores, on the tracker list: only
\* m_trackers.back() changes.
CollectionAddSemaphores(trackers, numSemaphores) ==
    [trackers EXCEPT ![Len(trackers)] = TrackerAddSemaphores(@, numSemaphores)]

\* SemaphoreTrackerCollection::CreateHandle, on the tracker list.  The handle
\* returned holds m_trackers.size() after the append.
CollectionCreateHandle(trackers, semaphoreCount) ==
    Append(trackers, NewTracker(semaphoreCount))

----------------------------------------------------------------------------
\* BeginInternal: per-scope quantities

Limits(s) == m_frameGraphExecuterData[s.dev]

CommandListCostThreshold(s) ==
    Max(Limits(s).m_commandListCostThresholdMin,
        DivideAndRoundUp(s.items, Limits(s).m_commandListsPerScopeMax))

TotalScopeCost(s) ==
    s.items * Limits(s).m_itemCost + s.atts * Limits(s).m_attachmentCost

\* Mutant of SubpassGroup: only the next scope is compared.
SubpassGroupNextOnly(s, prev, next) == next # <<>> /\ next[1].gid = s.gid

\* prev is the index of scopePrev (0: nullptr), next the sequence holding
\* scopeNext (empty: nullptr).
SubpassGroup(s, prev, next) ==
    \/ next # <<>> /\ next[1].gid = s.gid
    \/ prev # 0 /\ scopes[prev].gid = s.gid

\* Mutant of ExceededCommandCost: a merge set that would reach the threshold
\* exactly is flushed as well.
ExceededCommandCostAtThreshold(s) ==
    (mergedGroupCost + TotalScopeCost(s)) >= CommandListCostThreshold(s)

\* Mutant of ExceededCommandCost: the cost already merged is left out.
ExceededCommandCostOfScopeAlone(s) == TotalScopeCost(s) > CommandListCostThreshold(s)

ExceededCommandCost(s) ==
    (mergedGroupCost + TotalScopeCost(s)) > CommandListCostThreshold(s)

ExceededSwapChainLimit(s) ==
    (mergedSwapchainCount + s.swap) > Limits(s).m_swapChainsPerCommandList

\* mergedClass is mergedHardwareQueueClass after the reset of lines 125-128.
HardwareQueueMismatch(s, mergedClass) == s.queue # mergedClass

\* Mutant of OnSyncBoundaries: what the previous scope signals is not looked at.
OnSyncBoundariesWaitsOnly(s, prev) == s.waitSem # 0 \/ s.waitFences # {}

OnSyncBoundaries(s, prev) ==
    \/ s.waitSem # 0
    \/ s.waitFences # {}
    \/ prev # 0 /\ (scopes[prev].sigSem # 0 \/ scopes[prev].sigFences # {})

DeviceMismatch(s) == mergedDeviceIndex # s.dev

FlushMergedScopes(s, prev, next, mergedClass) ==
    \/ ExceededCommandCost(s)
    \/ ExceededSwapChainLimit(s)
    \/ HardwareQueueMismatch(s, mergedClass)
    \/ OnSyncBoundaries(s, prev)
    \/ DeviceMismatch(s)
    \/ SubpassGroup(s, prev, next)

Mergeable(s, prev, next) ==
    ~SubpassGroup(s, prev, next) /\ TotalScopeCost(s) < CommandListCostThreshold(s)

CommandListCount(s) ==
    Max(DivideAndRoundUp(TotalScopeCost(s), CommandListCostThreshold(s)), 1)

----------------------------------------------------------------------------
\* Execute groups

\* Mutant of MoveScopes: the vector is copied and keeps its scopes.
CopyScopes(merged) == merged

\* AZStd::move(mergedScopes) into the group: the vector is left empty.
MoveScopes(merged) == <<>>

\* Group id an execute group takes from its scopes.
GroupIdOf(scopeIndices) == scopes[Last(scopeIndices)].gid

\* FrameGraphExecuteGroupPrimary::Init(device, scopes, semaphore handle)
PrimaryGroup(device, scopeIndices, handle) ==
    [type |-> "Primary", scopes |-> scopeIndices, device |-> device,
     commandListCount |-> 1, jobPolicy |-> "Serial", handle |-> handle,
     groupId |-> GroupIdOf(scopeIndices)]

\* FrameGraphExecuteGroupSecondary::Init(device, scope, count, policy, handle)
SecondaryGroup(device, scopeIndex, commandListCount, jobPolicy, handle) ==
    [type |-> "Secondary", scopes |-> <<scopeIndex>>, device |-> device,
     commandListCount |-> commandListCount, jobPolicy |-> jobPolicy,
     handle |-> handle, groupId |-> GroupIdOf(<<scopeIndex>>)]

----------------------------------------------------------------------------
\* BeginInternal: tracker bookkeeping of one iteration (lines 186-224)

\* State of the bookkeeping: tracker list, running count, current handle, fence
\* map, unwaited-fence counter, swap chain bindings.
Bookkeeping ==
    [trackers |-> m_trackers, count |-> m_semaphoreCount,
     handle |-> currentSemaphoreHandle, map |-> userFencesSignalledMap,
     unwaited |-> numUnwaitedFences, bound |-> swapChainTracker]

\* Lines 188-191: a new handle right after a scope that presents a swap chain.
OpenBoundary(b, prev) ==
    IF prev # 0 /\ scopes[prev].swap # 0
    THEN [b EXCEPT !.trackers = CollectionCreateHandle(b.trackers, b.count),
                   !.handle = Len(b.trackers) + 1]
    ELSE b

\* Lines 192-200
RegisterSignalFences(b, s) ==
    LET new == s.sigFences \ DOMAIN b.map
    IN  [b EXCEPT !.map = [f \in DOMAIN b.map \cup new |->
                              IF f \in DOMAIN b.map THEN b.map[f] ELSE FALSE],
                  !.unwaited = @ + Cardinality(new)]

\* Mutant of RegisterWaitFences: the flag of the fence is not looked at.
RegisterWaitFencesWhateverFlag(b, s) ==
    LET known == { f \in s.waitFences : f \in DOMAIN b.map }
    IN  [b EXCEPT !.map = [f \in DOMAIN b.map \cup s.waitFences |->
                              IF f \in s.waitFences THEN TRUE ELSE b.map[f]],
                  !.unwaited = @ - Cardinality(known)]

\* Lines 201-212
RegisterWaitFences(b, s) ==
    LET pending == { f \in s.waitFences : f \in DOMAIN b.map /\ ~b.map[f] }
    IN  [b EXCEPT !.map = [f \in DOMAIN b.map \cup s.waitFences |->
                              IF f \in s.waitFences THEN TRUE ELSE b.map[f]],
                  !.unwaited = @ - Cardinality(pending)]

\* Line 213
CountWaits(b, s) ==
    LET n == s.waitSem + Cardinality(s.waitFences)
    IN  [b EXCEPT !.trackers = CollectionAddSemaphores(@, n), !.count = @ + n]

\* Lines 215-223: the first swap chain folds the unwaited fences in and clears
\* the map; every swap chain of the scope is bound to the current tracker.
BindSwapChains(b, s, index) ==
    IF s.swap = 0 THEN b
    ELSE [b EXCEPT !.trackers = CollectionAddSemaphores(@, b.unwaited),
                   !.count = @ + b.unwaited,
                   !.unwaited = 0,
                   !.map = [f \in {} |-> FALSE],
                   !.bound = @ \o [k \in 1..s.swap |-> <<index, Len(b.trackers)>>]]

TrackerBookkeeping(s, prev, index) ==
    IF useSemaphoreTrackers
    THEN BindSwapChains(
            CountWaits(
                RegisterWaitFences(
                    RegisterSignalFences(OpenBoundary(Bookkeeping, prev), s), s), s),
            s, index)
    ELSE Bookkeeping

----------------------------------------------------------------------------
\* BeginInternal: one iteration of the cost-heuristic loop (lines 118-243).
\* next holds scopeNext (empty at the last scope).

Iterate(next) ==
    LET s == scopes[it]
        mergedClass == IF mergedGroupCost = 0 THEN s.queue ELSE mergedHardwareQueueClass
        flush == FlushMergedScopes(s, scopePrev, next, mergedClass) /\ mergedScopes # <<>>
        \* lines 173-183
        cost1 == IF flush THEN 0 ELSE mergedGroupCost
        swap1 == IF flush THEN 0 ELSE mergedSwapchainCount
        class1 == IF flush THEN s.queue ELSE mergedClass
        dev1 == IF flush THEN s.dev ELSE mergedDeviceIndex
        merged1 == IF flush THEN MoveScopes(mergedScopes) ELSE mergedScopes
        groups1 == IF flush
                   THEN Append(groups, PrimaryGroup(scopes[scopePrev].dev, mergedScopes,
                                                    currentSemaphoreHandle))
                   ELSE groups
        b == TrackerBookkeeping(s, scopePrev, it)
        merge == Mergeable(s, scopePrev, next)
    IN  /\ pc = "loop"
        /\ mergedHardwareQueueClass' = class1
        /\ mergedDeviceIndex' = dev1
        /\ m_trackers' = b.trackers
        /\ m_semaphoreCount' = b.count
        /\ currentSemaphoreHandle' = b.handle
        /\ userFencesSignalledMap' = b.map
        /\ numUnwaitedFences' = b.unwaited
        /\ swapChainTracker' = b.bound
        \* lines 226-241
        /\ mergedScopes' = IF merge THEN Append(merged1, it) ELSE merged1
        /\ mergedGroupCost' = IF merge THEN cost1 + TotalScopeCost(s) ELSE cost1
        /\ mergedSwapchainCount' = IF merge THEN swap1 + s.swap ELSE swap1
        /\ groups' = IF merge THEN groups1
                     ELSE Append(groups1, SecondaryGroup(s.dev, it, CommandListCount(s),
                                                         m_jobPolicy, b.handle))
        /\ scopePrev' = it
        /\ it' = it + 1
        /\ scopes' = scopes \o next
        /\ pc' = IF next = <<>> THEN "final" ELSE "loop"
        /\ UNCHANGED <<frameGraph, m_frameGraphExecuterData, m_jobPolicy, useSemaphoreTrackers,
                       m_groupHandlers, execVars, threadVars, initVars>>

\* The loop at a scope that has a successor, and at the last scope.
BeginScope ==
    \/ /\ Len(scopes) < frameGraph.maxScopes
       /\ \E n \in FollowingScopes(frameGraph, scopes) : Iterate(<<n>>)
    \/ Iterate(<<>>)

\* Mutant of FinalFlush: the pending scopes are not flushed.
FinalFlushSkipped ==
    /\ pc = "final"
    /\ pc' = "handlers"
    /\ UNCHANGED <<frameGraph, scopes, m_frameGraphExecuterData, m_jobPolicy,
                   useSemaphoreTrackers, groups, m_groupHandlers, it, scopePrev,
                   mergedScopes, mergedHardwareQueueClass, mergedGroupCost,
                   mergedSwapchainCount, mergedDeviceIndex, currentSemaphoreHandle,
                   userFencesSignalledMap, numUnwaitedFences, swapChainTracker,
                   collectionVars, execVars, threadVars, initVars>>

\* Lines 245-253: merge all pending scopes.
FinalFlush ==
    /\ pc = "final"
    /\ IF mergedScopes # <<>>
       THEN /\ mergedGroupCost' = 0
            /\ mergedSwapchainCount' = 0
            /\ groups' = Append(groups, PrimaryGroup(scopes[mergedScopes[1]].dev,
                                                     mergedScopes, currentSemaphoreHandle))
            /\ mergedScopes' = MoveScopes(mergedScopes)
       ELSE UNCHANGED <<mergedGroupCost, mergedSwapchainCount, groups, mergedScopes>>
    /\ pc' = "handlers"
    /\ UNCHANGED <<frameGraph, scopes, m_frameGraphExecuterData, m_jobPolicy, useSemaphoreTrackers,
                   m_groupHandlers, it, scopePrev, mergedHardwareQueueClass,
                   mergedDeviceIndex, currentSemaphoreHandle, userFencesSignalledMap,
                   numUnwaitedFences, swapChainTracker, collectionVars, execVars,
                   threadVars, initVars>>

----------------------------------------------------------------------------
\* BeginInternal: handlers (lines 255-286) and AddExecuteGroupHandler

\* A default-constructed RHI::GraphGroupId
NullGroupId == -1

\* AddExecuteGroupHandler(groupId, groups): no handler for an empty list; a
\* primary handler for exactly one Primary group; insert keeps an entry that
\* is already in the map.
AddExecuteGroupHandler(handlers, groupId, groupRefs) ==
    IF groupRefs = <<>> THEN handlers
    ELSE LET handler ==
                 [type |-> IF Len(groupRefs) = 1 /\ groups[groupRefs[1]].type = "Primary"
                           THEN "PrimaryHandler" ELSE "SecondaryHandler",
                  groups |-> groupRefs]
         IN  [g \in DOMAIN handlers \cup {groupId} |->
                 IF g \in DOMAIN handlers THEN handlers[g] ELSE handler]

GroupRefs(from, to) == [k \in 1..(to - from + 1) |-> from + k - 1]

\* The loop of lines 263-277 from group i on, and the final handler of
\* lines 279-285.  Groups are numbered from 1.
RECURSIVE CreateHandlersFrom(_, _, _, _)
CreateHandlersFrom(i, groupId, initGroupIndex, handlers) ==
    IF i > Len(groups)
    THEN AddExecuteGroupHandler(handlers, groupId, GroupRefs(initGroupIndex, Len(groups)))
    ELSE IF groupId # groups[i].groupId
         THEN CreateHandlersFrom(i + 1, groups[i].groupId, i,
                  AddExecuteGroupHandler(handlers, groupId, GroupRefs(initGroupIndex, i - 1)))
         ELSE CreateHandlersFrom(i + 1, groupId, initGroupIndex, handlers)

CreateHandlers ==
    /\ pc = "handlers"
    /\ m_groupHandlers' = CreateHandlersFrom(1, NullGroupId, 1, m_groupHandlers)
    /\ pc' = "done"
    /\ UNCHANGED <<frameGraph, scopes, m_frameGraphExecuterData, m_jobPolicy, useSemaphoreTrackers,
                   groups, it, scopePrev, mergedScopes, mergedHardwareQueueClass,
                   mergedGroupCost, mergedSwapchainCount, mergedDeviceIndex,
                   currentSemaphoreHandle, userFencesSignalledMap, numUnwaitedFences,
                   swapChainTracker, collectionVars, execVars, threadVars, initVars>>

----------------------------------------------------------------------------
\* BeginInternal under AZ_FORCE_CPU_GPU_INSYNC: one iteration (lines 89-110)

IterateSerial(next) ==
    LET s == scopes[it]
        pushed == Append(mergedScopes, it)
    IN  /\ pc = "loop"
        /\ IF SubpassGroup(s, scopePrev, next)
           THEN /\ groups' = Append(groups, SecondaryGroup(s.dev, it, 1, m_jobPolicy, 0))
                /\ mergedScopes' = mergedScopes
           ELSE \* push_back, then the vector is moved into the group
                /\ groups' = Append(groups, PrimaryGroup(s.dev, pushed, 0))
                /\ mergedScopes' = MoveScopes(pushed)
        /\ scopePrev' = it
        /\ it' = it + 1
        /\ scopes' = scopes \o next
        /\ pc' = IF next = <<>> THEN "handlers" ELSE "loop"
        /\ UNCHANGED <<frameGraph, m_frameGraphExecuterData, m_jobPolicy, useSemaphoreTrackers,
                       m_groupHandlers, mergedHardwareQueueClass, mergedGroupCost,
                       mergedSwapchainCount, mergedDeviceIndex, currentSemaphoreHandle,
                       userFencesSignalledMap, numUnwaitedFences, swapChainTracker,
                       collectionVars, execVars, threadVars, initVars>>

BeginScopeSerial ==
    \/ /\ Len(scopes) < frameGraph.maxScopes
       /\ \E n \in FollowingScopes(frameGraph, scopes) : IterateSerial(<<n>>)
    \/ IterateSerial(<<>>)

----------------------------------------------------------------------------
\* Nothing has been recorded or executed: the groups and handlers of a frame
\* of at most n scopes are numbered within 1..n.
ExecutionNotStarted(n) ==
    /\ m_isComplete = [g \in 1..n |-> FALSE]
    /\ m_isExecuted = [id \in 1..n |-> FALSE]
    /\ endCalls = [id \in 1..n |-> 0]
    /\ workers = [g \in 1..n |-> "record"]

\* InitInternal has returned; its descriptor is no longer looked at.
Initialized ==
    /\ descriptor = [d \in {} |-> 0]
    /\ visited = {}
    /\ initResult = "Success"

\* No thread uses the tracker collection.
NoThreads ==
    /\ phase = "begin"
    /\ handles = <<>>
    /\ owed = <<>>
    /\ m_lock = <<>>
    /\ signalers = <<>>
    /\ waiters = <<>>

----------------------------------------------------------------------------
\* State at the head of the loop of BeginInternal (lines 62-83 and 113-116),
\* after the constructor (lines 31-38) and InitInternal.

BeginEntry(graph, limits, policy, signalFenceFromCPU) ==
    /\ frameGraph = graph
    /\ scopes \in { <<n>> : n \in FollowingScopes(graph, <<>>) }
    /\ m_frameGraphExecuterData \in limits
    /\ m_jobPolicy = policy
    /\ useSemaphoreTrackers \in signalFenceFromCPU
    /\ groups = <<>>
    /\ m_groupHandlers = [g \in {} |-> 0]
    /\ pc = "loop"
    /\ it = 1
    /\ scopePrev = 0
    /\ mergedScopes = <<>>
    /\ mergedHardwareQueueClass = "Graphics"
    /\ mergedGroupCost = 0
    /\ mergedSwapchainCount = 0
    /\ mergedDeviceIndex = InvalidDeviceIndex
    /\ m_trackers = IF useSemaphoreTrackers THEN CollectionCreateHandle(<<>>, 0) ELSE <<>>
    /\ m_semaphoreCount = 0
    /\ currentSemaphoreHandle = IF useSemaphoreTrackers THEN 1 ELSE 0
    /\ userFencesSignalledMap = [f \in {} |-> FALSE]
    /\ numUnwaitedFences = 0
    /\ swapChainTracker = <<>>
    /\ ExecutionNotStarted(graph.maxScopes)
    /\ NoThreads
    /\ Initialized

InitBegin == BeginEntry(PartitionGraph, LimitsChoices, "Parallel", {TRUE})

NextBegin == BeginScope \/ FinalFlush \/ CreateHandlers

SpecBegin == InitBegin /\ [][NextBegin]_vars

InitExample == BeginEntry(ExampleGraph, {[d \in Devices |-> ExampleLimits]}, "Parallel", BOOLEAN)

SpecExample == InitExample /\ [][NextBegin]_vars

InitSerial == BeginEntry(PartitionGraph, LimitsChoices, "Serial", {TRUE})

InitSync == BeginEntry(SyncGraph, {[d \in Devices |-> DefaultLimits]}, "Parallel", BOOLEAN)

SpecSync == InitSync /\ [][NextBegin]_vars

InitFence == BeginEntry(FenceGraph, {[d \in Devices |-> DefaultLimits]}, "Parallel", {TRUE})

SpecFence == InitFence /\ [][NextBegin]_vars

NextSerial == BeginScopeSerial \/ CreateHandlers

SpecSerial == InitSerial /\ [][NextSerial]_vars

----------------------------------------------------------------------------
\* Execution of the groups.  Under the parallel job policy every execute
\* group is run by a job of its own: the job records the group and then calls
\* ExecuteGroup for it (lines 288-301).  Worker g is the thread of group g.

beginUnchanged ==
    UNCHANGED <<frameGraph, scopes, m_frameGraphExecuterData, m_jobPolicy,
                useSemaphoreTrackers, groups, it, scopePrev, mergedScopes,
                mergedHardwareQueueClass, mergedGroupCost, mergedSwapchainCount,
                mergedDeviceIndex, currentSemaphoreHandle, userFencesSignalledMap,
                numUnwaitedFences, swapChainTracker>>

\* FrameGraphExecuteGroupHandler::IsExecuted
IsExecuted(groupId) == m_isExecuted[groupId]

\* FrameGraphExecuteGroupHandler::IsComplete: all groups of the handler have
\* finished recording.
IsComplete(groupId) ==
    \A k \in 1..Len(m_groupHandlers[groupId].groups) :
        m_isComplete[m_groupHandlers[groupId].groups[k]]

\* The job finishes recording its group.
Record(g) ==
    /\ pc = "done"
    /\ g \in 1..Len(groups)
    /\ workers[g] = "record"
    /\ m_isComplete' = [m_isComplete EXCEPT ![g] = TRUE]
    /\ workers' = [workers EXCEPT ![g] = "find"]
    /\ UNCHANGED <<m_isExecuted, endCalls, m_groupHandlers, pc>>
    /\ beginUnchanged
    /\ UNCHANGED <<collectionVars, threadVars, initVars>>

\* Lines 290-293: the handler is looked up by the group id of the group; the
\* assertion fails when there is none.
FindHandler(g) ==
    /\ pc = "done"
    /\ g \in 1..Len(groups)
    /\ workers[g] = "find"
    /\ workers' = [workers EXCEPT ![g] =
                      IF groups[g].groupId \in DOMAIN m_groupHandlers
                      THEN "isExecuted" ELSE "assertFailed"]
    /\ UNCHANGED <<m_isComplete, m_isExecuted, endCalls, m_groupHandlers, pc>>
    /\ beginUnchanged
    /\ UNCHANGED <<collectionVars, threadVars, initVars>>

\* Mutant of CheckIsExecuted: the negation is dropped.
CheckIsExecutedInverted(g) ==
    /\ pc = "done"
    /\ g \in 1..Len(groups)
    /\ workers[g] = "isExecuted"
    /\ workers' = [workers EXCEPT ![g] =
                      IF IsExecuted(groups[g].groupId) THEN "isComplete" ELSE "returned"]
    /\ UNCHANGED <<m_isComplete, m_isExecuted, endCalls, m_groupHandlers, pc>>
    /\ beginUnchanged
    /\ UNCHANGED <<collectionVars, threadVars, initVars>>

\* Line 296, left operand: !handler->IsExecuted()
CheckIsExecuted(g) ==
    /\ pc = "done"
    /\ g \in 1..Len(groups)
    /\ workers[g] = "isExecuted"
    /\ workers' = [workers EXCEPT ![g] =
                      IF IsExecuted(groups[g].groupId) THEN "returned" ELSE "isComplete"]
    /\ UNCHANGED <<m_isComplete, m_isExecuted, endCalls, m_groupHandlers, pc>>
    /\ beginUnchanged
    /\ UNCHANGED <<collectionVars, threadVars, initVars>>

\* Mutant of CheckIsComplete: End() is called whatever IsComplete() says.
CheckIsCompleteSkipped(g) ==
    /\ pc = "done"
    /\ g \in 1..Len(groups)
    /\ workers[g] = "isComplete"
    /\ workers' = [workers EXCEPT ![g] = "end"]
    /\ UNCHANGED <<m_isComplete, m_isExecuted, endCalls, m_groupHandlers, pc>>
    /\ beginUnchanged
    /\ UNCHANGED <<collectionVars, threadVars, initVars>>

\* Line 296, right operand: handler->IsComplete()
CheckIsComplete(g) ==
    /\ pc = "done"
    /\ g \in 1..Len(groups)
    /\ workers[g] = "isComplete"
    /\ workers' = [workers EXCEPT ![g] =
                      IF IsComplete(groups[g].groupId) THEN "end" ELSE "returned"]
    /\ UNCHANGED <<m_isComplete, m_isExecuted, endCalls, m_groupHandlers, pc>>
    /\ beginUnchanged
    /\ UNCHANGED <<collectionVars, threadVars, initVars>>

\* Line 299: handler->End() submits the recorded work and marks the handler
\* executed.
HandlerEnd(g) ==
    /\ pc = "done"
    /\ g \in 1..Len(groups)
    /\ workers[g] = "end"
    /\ endCalls' = [endCalls EXCEPT ![groups[g].groupId] = @ + 1]
    /\ m_isExecuted' = [m_isExecuted EXCEPT ![groups[g].groupId] = TRUE]
    /\ workers' = [workers EXCEPT ![g] = "returned"]
    /\ UNCHANGED <<m_isComplete, m_groupHandlers, pc>>
    /\ beginUnchanged
    /\ UNCHANGED <<collectionVars, threadVars, initVars>>

\* EndInternal (lines 303-306), called once the jobs of the frame are over.
EndInternal ==
    /\ pc = "done"
    /\ \A g \in 1..Len(groups) : workers[g] \in {"returned", "assertFailed"}
    /\ m_groupHandlers' = [g \in {} |-> 0]
    /\ pc' = "ended"
    /\ UNCHANGED <<m_isComplete, m_isExecuted, endCalls, workers>>
    /\ beginUnchanged
    /\ UNCHANGED <<collectionVars, threadVars, initVars>>

InitExecute ==
    BeginEntry(ExecGraph, {[d \in Devices |-> DefaultLimits]}, "Parallel", BOOLEAN)

NextExecute ==
    \/ NextBegin
    \/ \E g \in 1..MaxExecScopes :
          \/ Record(g)
          \/ FindHandler(g)
          \/ CheckIsExecuted(g)
          \/ CheckIsComplete(g)
          \/ HandlerEnd(g)
    \/ EndInternal

SpecExecute == InitExecute /\ [][NextExecute]_vars

\* Begin runs to its end and every job runs to its end: no thread of the
\* frame is abandoned.
FairExecute == SpecExecute /\ WF_vars(NextExecute)

\* The same, for frame graphs with recurring group ids.
InitRecur ==
    BeginEntry(RecurGraph, {[d \in Devices |-> DefaultLimits]}, "Parallel", {FALSE})

SpecRecur == InitRecur /\ [][NextExecute]_vars

----------------------------------------------------------------------------
\* SemaphoreTracker, SemaphoreTrackerCollection and SemaphoreTrackerHandle
\* used by threads.  The collection is built by one thread (CreateHandle and
\* AddSemaphores take no lock); afterwards the submitting threads signal
\* through the handles and the presenting threads wait on a tracker.

SignalThreads == {"s1", "s2"}
WaitThreads == {"w1", "w2"}

execUnchanged == UNCHANGED <<m_groupHandlers, pc, execVars, initVars>>

IdleSignaler == [pc |-> "idle", handle |-> 0, n |-> 0, i |-> 0]

\* Line 28: the signal that makes the counters equal wakes the waiters.
ReachedExpected(tracker) ==
    tracker.m_signalledSemaphoreCounter = tracker.m_semaphoreCounter

WaitPredicateAtMost(tracker) ==
    tracker.m_signalledSemaphoreCounter <= tracker.m_semaphoreCounter

\* Lines 39-42: the predicate of m_waitCondition.wait.
WaitPredicate(tracker) ==
    tracker.m_signalledSemaphoreCounter = tracker.m_semaphoreCounter

\* SemaphoreTrackerCollection::CreateHandle (lines 51-57); the handle keeps
\* m_trackers.size() as its m_countTrackers (lines 72-76).
CreateHandle ==
    /\ phase = "setup"
    /\ Len(m_trackers) < MaxTrackers
    /\ m_trackers' = CollectionCreateHandle(m_trackers, m_semaphoreCount)
    /\ handles' = Append(handles, Len(m_trackers'))
    /\ owed' = Append(owed, 0)
    /\ m_lock' = Append(m_lock, "free")
    /\ UNCHANGED <<m_semaphoreCount, phase, signalers, waiters>>
    /\ beginUnchanged
    /\ execUnchanged

\* SemaphoreTrackerCollection::AddSemaphores (lines 45-49).  The semaphores
\* are those of the submissions that carry the newest handle.  On a collection
\* without a tracker, m_trackers.back() (line 47) is undefined behaviour: the
\* call through the invalid reference either ends the program or writes to
\* memory that is not a tracker, after which line 48 raises the running count.
AddSemaphores(numSemaphores) ==
    /\ phase = "setup"
    /\ m_semaphoreCount + numSemaphores <= MaxSemaphores
    /\ \/ /\ Len(m_trackers) > 0
          /\ m_trackers' = CollectionAddSemaphores(m_trackers, numSemaphores)
          /\ m_semaphoreCount' = m_semaphoreCount + numSemaphores
          /\ owed' = [owed EXCEPT ![Len(owed)] = @ + numSemaphores]
          /\ UNCHANGED phase
       \/ /\ Len(m_trackers) = 0
          /\ \/ /\ phase' = "crashed"
                /\ UNCHANGED m_semaphoreCount
             \/ /\ m_semaphoreCount' = m_semaphoreCount + numSemaphores
                /\ UNCHANGED phase
          /\ UNCHANGED <<m_trackers, owed>>
    /\ UNCHANGED <<handles, m_lock, signalers, waiters>>
    /\ beginUnchanged
    /\ execUnchanged

\* The collection is complete; each presenting thread waits on the tracker
\* bound to its swap chain.
StartThreads ==
    /\ phase = "setup"
    /\ Len(m_trackers) > 0
    /\ phase' = "run"
    /\ waiters' \in [WaitThreads ->
                        { [pc |-> "idle", tracker |-> k, hasBlocked |-> FALSE] :
                            k \in 1..Len(m_trackers) }]
    /\ UNCHANGED <<collectionVars, handles, owed, m_lock, signalers>>
    /\ beginUnchanged
    /\ execUnchanged

\* SemaphoreTrackerHandle::SignalSemaphores (lines 78-81) enters the loop of
\* SemaphoreTrackerCollection::SignalSemaphores (lines 64-70).  A submission
\* signals the semaphores that were counted for it.
SignalSemaphores(s, h, numSemaphores) ==
    /\ phase = "run"
    /\ signalers[s].pc = "idle"
    /\ h \in 1..Len(handles)
    /\ numSemaphores \in 1..owed[h]
    /\ owed' = [owed EXCEPT ![h] = @ - numSemaphores]
    /\ signalers' = [signalers EXCEPT ![s] =
                        [pc |-> "lock", handle |-> h, n |-> numSemaphores, i |-> 1]]
    /\ UNCHANGED <<collectionVars, phase, handles, m_lock, waiters>>
    /\ beginUnchanged
    /\ execUnchanged

\* Mutant of NextTracker: the loop runs over all trackers of the collection.
NextTrackerOfAll(sig) ==
    IF sig.i + 1 <= Len(m_trackers)
    THEN [sig EXCEPT !.pc = "lock", !.i = @ + 1]
    ELSE IdleSignaler

\* Lines 66-69: the next tracker of the loop, or the return.
NextTracker(sig) ==
    IF sig.i + 1 <= handles[sig.handle]
    THEN [sig EXCEPT !.pc = "lock", !.i = @ + 1]
    ELSE IdleSignaler

\* Line 26
SignalLock(s) ==
    /\ phase = "run"
    /\ signalers[s].pc = "lock"
    /\ m_lock[signalers[s].i] = "free"
    /\ m_lock' = [m_lock EXCEPT ![signalers[s].i] = s]
    /\ signalers' = [signalers EXCEPT ![s].pc = "add"]
    /\ UNCHANGED <<collectionVars, phase, handles, owed, waiters>>
    /\ beginUnchanged
    /\ execUnchanged

\* Lines 27-30 and 33: the counter is raised and the lock released, either by
\* unlock() before the notification or at the end of the scope.
SignalAdd(s) ==
    /\ phase = "run"
    /\ signalers[s].pc = "add"
    /\ LET i == signalers[s].i
           tracker == [m_trackers[i] EXCEPT
                          !.m_signalledSemaphoreCounter = @ + signalers[s].n]
       IN  /\ m_trackers' = [m_trackers EXCEPT ![i] = tracker]
           /\ m_lock' = [m_lock EXCEPT ![i] = "free"]
           /\ signalers' = [signalers EXCEPT ![s] =
                               IF ReachedExpected(tracker)
                               THEN [@ EXCEPT !.pc = "notify"]
                               ELSE NextTracker(@)]
    /\ UNCHANGED <<m_semaphoreCount, phase, handles, owed, waiters>>
    /\ beginUnchanged
    /\ execUnchanged

\* Mutant of SignalNotify: the notification reaches no thread.
SignalNotifyNobody(s) ==
    /\ phase = "run"
    /\ signalers[s].pc = "notify"
    /\ signalers' = [signalers EXCEPT ![s] = NextTracker(@)]
    /\ UNCHANGED <<collectionVars, phase, handles, owed, m_lock, waiters>>
    /\ beginUnchanged
    /\ execUnchanged

\* Line 31: notify_all wakes the threads blocked on this tracker.
SignalNotify(s) ==
    /\ phase = "run"
    /\ signalers[s].pc = "notify"
    /\ waiters' = [w \in WaitThreads |->
                      IF waiters[w].pc = "blocked" /\ waiters[w].tracker = signalers[s].i
                      THEN [waiters[w] EXCEPT !.pc = "woken"]
                      ELSE waiters[w]]
    /\ signalers' = [signalers EXCEPT ![s] = NextTracker(@)]
    /\ UNCHANGED <<collectionVars, phase, handles, owed, m_lock>>
    /\ beginUnchanged
    /\ execUnchanged

\* Line 36, and the re-acquisition of the lock inside wait after a wake-up.
WaitLock(w) ==
    /\ phase = "run"
    /\ waiters[w].pc \in {"idle", "woken"}
    /\ m_lock[waiters[w].tracker] = "free"
    /\ m_lock' = [m_lock EXCEPT ![waiters[w].tracker] = w]
    /\ waiters' = [waiters EXCEPT ![w].pc = "check"]
    /\ UNCHANGED <<collectionVars, phase, handles, owed, signalers>>
    /\ beginUnchanged
    /\ execUnchanged

\* Lines 37-43: with the lock held the predicate is evaluated; wait returns
\* when it holds, and otherwise releases the lock and blocks in one step.
WaitForSignalAllSemaphores(w) ==
    /\ phase = "run"
    /\ waiters[w].pc = "check"
    /\ m_lock' = [m_lock EXCEPT ![waiters[w].tracker] = "free"]
    /\ waiters' = [waiters EXCEPT ![w] =
                      IF WaitPredicate(m_trackers[waiters[w].tracker])
                      THEN [@ EXCEPT !.pc = "returned"]
                      ELSE [@ EXCEPT !.pc = "blocked", !.hasBlocked = TRUE]]
    /\ UNCHANGED <<collectionVars, phase, handles, owed, signalers>>
    /\ beginUnchanged
    /\ execUnchanged

\* A condition variable may wake a blocked thread without a notification.
SpuriousWakeup(w) ==
    /\ phase = "run"
    /\ waiters[w].pc = "blocked"
    /\ waiters' = [waiters EXCEPT ![w].pc = "woken"]
    /\ UNCHANGED <<collectionVars, phase, handles, owed, m_lock, signalers>>
    /\ beginUnchanged
    /\ execUnchanged

\* An empty collection (m_semaphoreCount 0, no tracker); the executer is idle.
InitTracker ==
    /\ frameGraph = ExecGraph
    /\ scopes = <<>>
    /\ m_frameGraphExecuterData = [d \in Devices |-> DefaultLimits]
    /\ m_jobPolicy = "Parallel"
    /\ useSemaphoreTrackers = TRUE
    /\ groups = <<>>
    /\ m_groupHandlers = [g \in {} |-> 0]
    /\ pc = "idle"
    /\ it = 1
    /\ scopePrev = 0
    /\ mergedScopes = <<>>
    /\ mergedHardwareQueueClass = "Graphics"
    /\ mergedGroupCost = 0
    /\ mergedSwapchainCount = 0
    /\ mergedDeviceIndex = InvalidDeviceIndex
    /\ currentSemaphoreHandle = 0
    /\ userFencesSignalledMap = [f \in {} |-> FALSE]
    /\ numUnwaitedFences = 0
    /\ swapChainTracker = <<>>
    /\ ExecutionNotStarted(0)
    /\ Initialized
    /\ m_trackers = <<>>
    /\ m_semaphoreCount = 0
    /\ phase = "setup"
    /\ handles = <<>>
    /\ owed = <<>>
    /\ m_lock = <<>>
    /\ signalers = [s \in SignalThreads |-> IdleSignaler]
    /\ waiters = [w \in WaitThreads |-> [pc |-> "idle", tracker |-> 0, hasBlocked |-> FALSE]]

NextThreads ==
    \/ CreateHandle
    \/ \E k \in 1..MaxSemaphores : AddSemaphores(k)
    \/ StartThreads
    \/ \E s \in SignalThreads :
          \/ \E h \in 1..MaxTrackers, n \in 1..MaxSemaphores : SignalSemaphores(s, h, n)
          \/ SignalLock(s)
          \/ SignalAdd(s)
          \/ SignalNotify(s)
    \/ \E w \in WaitThreads :
          \/ WaitLock(w)
          \/ WaitForSignalAllSemaphores(w)
          \/ SpuriousWakeup(w)

SpecTracker == InitTracker /\ [][NextThreads]_vars

\* A thread inside SignalSemaphores or WaitForSignalAllSemaphores goes on, and
\* a thread that tries to take m_lock again and again gets it.  Spurious
\* wake-ups and new calls need not happen.
FairTracker ==
    /\ SpecTracker
    /\ \A s \in SignalThreads :
          SF_vars(SignalLock(s)) /\ WF_vars(SignalAdd(s)) /\ WF_vars(SignalNotify(s))
    /\ \A w \in WaitThreads :
          SF_vars(WaitLock(w)) /\ WF_vars(WaitForSignalAllSemaphores(w))

----------------------------------------------------------------------------
\* InitInternal (lines 40-53).  A descriptor of the map is either the Vulkan
\* PlatformLimitsDescriptor, which carries m_frameGraphExecuterData, or a
\* PlatformLimitsDescriptor of another type, for which azrtti_cast yields null.

VulkanDescriptors ==
    { [type |-> "Vulkan", m_frameGraphExecuterData |-> l] :
        l \in {DefaultLimits, AttachmentOnlyLimits, ExampleLimits} }

OtherDescriptors == { [type |-> "Other"] }

\* The maps from some of the devices to a descriptor.
DescriptorMaps ==
    UNION { [ds -> VulkanDescriptors \cup OtherDescriptors] : ds \in SUBSET Devices }

\* Line 45-46: the cast succeeds for the Vulkan type only.
CastSucceeds(platformLimitsDescriptor) == platformLimitsDescriptor.type = "Vulkan"

initUnchanged ==
    UNCHANGED <<frameGraph, scopes, m_jobPolicy, useSemaphoreTrackers, groups,
                m_groupHandlers, it, scopePrev, mergedScopes, mergedHardwareQueueClass,
                mergedGroupCost, mergedSwapchainCount, mergedDeviceIndex,
                currentSemaphoreHandle, userFencesSignalledMap, numUnwaitedFences,
                swapChainTracker, collectionVars, execVars, threadVars>>

\* Lines 42-50: one entry of the map, in the order the map yields them.
InitDescriptor(deviceIndex) ==
    /\ pc = "init"
    /\ deviceIndex \in DOMAIN descriptor \ visited
    /\ m_frameGraphExecuterData' =
          IF CastSucceeds(descriptor[deviceIndex])
          THEN [d \in DOMAIN m_frameGraphExecuterData \cup {deviceIndex} |->
                   IF d = deviceIndex
                   THEN descriptor[deviceIndex].m_frameGraphExecuterData
                   ELSE m_frameGraphExecuterData[d]]
          ELSE m_frameGraphExecuterData
    /\ visited' = visited \cup {deviceIndex}
    /\ UNCHANGED <<pc, descriptor, initResult>>
    /\ initUnchanged

\* Line 52
InitReturn ==
    /\ pc = "init"
    /\ visited = DOMAIN descriptor
    /\ initResult' = "Success"
    /\ pc' = "initialized"
    /\ UNCHANGED <<m_frameGraphExecuterData, descriptor, visited>>
    /\ initUnchanged

\* A newly constructed executer (lines 31-38) and the descriptor handed to Init.
InitInit ==
    /\ frameGraph = ExecGraph
    /\ scopes = <<>>
    /\ m_frameGraphExecuterData = [d \in {} |-> DefaultLimits]
    /\ m_jobPolicy = "Parallel"
    /\ useSemaphoreTrackers = FALSE
    /\ groups = <<>>
    /\ m_groupHandlers = [g \in {} |-> 0]
    /\ pc = "init"
    /\ it = 1
    /\ scopePrev = 0
    /\ mergedScopes = <<>>
    /\ mergedHardwareQueueClass = "Graphics"
    /\ mergedGroupCost = 0
    /\ mergedSwapchainCount = 0
    /\ mergedDeviceIndex = InvalidDeviceIndex
    /\ currentSemaphoreHandle = 0
    /\ userFencesSignalledMap = [f \in {} |-> FALSE]
    /\ numUnwaitedFences = 0
    /\ swapChainTracker = <<>>
    /\ m_trackers = <<>>
    /\ m_semaphoreCount = 0
    /\ ExecutionNotStarted(0)
    /\ NoThreads
    /\ descriptor \in DescriptorMaps
    /\ visited = {}
    /\ initResult = "None"

NextInit == (\E d \in Devices : InitDescriptor(d)) \/ InitReturn

SpecInit == InitInit /\ [][NextInit]_vars

----------------------------------------------------------------------------

\* Properties of the execute groups Begin produces

GroupIndices == 1..Len(groups)

Members(g) == { groups[g].scopes[k] : k \in 1..Len(groups[g].scopes) }

\* How often scope i occurs in the groups and in the pending merge set.
Occurrences(i) ==
    SumSeq([g \in GroupIndices |->
              Cardinality({ k \in 1..Len(groups[g].scopes) : groups[g].scopes[k] = i })])
      + Cardinality({ k \in 1..Len(mergedScopes) : mergedScopes[k] = i })

Ascending(s) == \A k \in 1..(Len(s) - 1) : s[k] < s[k + 1]

LoopFinished == pc \in {"handlers", "done"}

\* Scope i shares its group id with its previous or next scope.
ChainMember(i) ==
    \/ i > 1 /\ scopes[i - 1].gid = scopes[i].gid
    \/ i < Len(scopes) /\ scopes[i + 1].gid = scopes[i].gid

\* Cost accumulated over the scopes of group g.
GroupCost(g) ==
    SumSeq([k \in 1..Len(groups[g].scopes) |-> TotalScopeCost(scopes[groups[g].scopes[k]])])

\* C1: the execute groups partition the scopes exactly.  Every scope the loop
\* has passed occurs exactly once, in a group or in the pending merge set, no
\* other scope occurs, the scopes of a group are in input order, and once the
\* loop and the final flush are over every scope of the input is in a group.
C1_GroupsPartitionScopes ==
    /\ \A i \in 1..Len(scopes) : Occurrences(i) = IF i < it THEN 1 ELSE 0
    /\ \A g \in GroupIndices : groups[g].scopes # <<>> /\ Ascending(groups[g].scopes)
    /\ Ascending(mergedScopes)
    /\ LoopFinished =>
          /\ mergedScopes = <<>>
          /\ it = Len(scopes) + 1
          /\ SumSeq([g \in GroupIndices |-> Len(groups[g].scopes)]) = Len(scopes)

C1_Witness ==
    /\ pc = "done"
    /\ Len(scopes) = MaxScopes
    /\ \E g \in GroupIndices : groups[g].type = "Primary" /\ Len(groups[g].scopes) >= 2
    /\ \E g \in GroupIndices : groups[g].type = "Secondary"

\* C3: no execute group contains two scopes of different hardware queue
\* classes.
C3_OneQueueClassPerGroup ==
    \A g \in GroupIndices : \A a, b \in Members(g) : scopes[a].queue = scopes[b].queue

\* C4: no execute group contains two scopes of different devices.
C4_OneDevicePerGroup ==
    \A g \in GroupIndices : \A a, b \in Members(g) : scopes[a].dev = scopes[b].dev

\* C5: no execute group crosses a synchronization boundary.  For scopes S and
\* T adjacent in the input and in the same group (or both in the pending merge
\* set), S signals no semaphore and no fence and T waits for none.
NoBoundaryBetween(a, b) ==
    /\ scopes[a].sigSem = 0 /\ scopes[a].sigFences = {}
    /\ scopes[b].waitSem = 0 /\ scopes[b].waitFences = {}

AdjacentPairs(s) == { k \in 1..(Len(s) - 1) : s[k + 1] = s[k] + 1 }

C5_NoGroupCrossesSyncBoundary ==
    /\ \A g \in GroupIndices : \A k \in AdjacentPairs(groups[g].scopes) :
          NoBoundaryBetween(groups[g].scopes[k], groups[g].scopes[k + 1])
    /\ \A k \in AdjacentPairs(mergedScopes) :
          NoBoundaryBetween(mergedScopes[k], mergedScopes[k + 1])

HasSync(s) == s.sigSem # 0 \/ s.sigFences # {} \/ s.waitSem # 0 \/ s.waitFences # {}

\* A merged group of two adjacent scopes, the first of which waits and the
\* second of which signals, next to groups cut at a boundary.
C5_Witness ==
    /\ pc = "done"
    /\ \E g \in GroupIndices : \E k \in AdjacentPairs(groups[g].scopes) :
          /\ scopes[groups[g].scopes[k]].waitSem # 0
          /\ scopes[groups[g].scopes[k + 1]].sigFences # {}
    /\ \E i \in 1..(Len(scopes) - 1) : scopes[i].sigSem # 0

\* C6: a scope that shares its group id with its previous or next scope gets
\* a Secondary group of its own, whatever its cost, and is never in a merge
\* set.
C6_ChainMemberHasOwnGroup ==
    \A i \in 1..(it - 1) :
        ChainMember(i) =>
            /\ \A k \in 1..Len(mergedScopes) : mergedScopes[k] # i
            /\ \E g \in GroupIndices :
                  groups[g].type = "Secondary" /\ groups[g].scopes = <<i>>
            /\ \A g \in GroupIndices : i \in Members(g) => groups[g].scopes = <<i>>

\* A chain of two scopes whose cost is below the threshold, between merged
\* scopes.
C6_Witness ==
    /\ pc = "done"
    /\ \E i \in 3..(Len(scopes) - 1) :
          /\ ChainMember(i) /\ ChainMember(i - 1)
          /\ TotalScopeCost(scopes[i]) < CommandListCostThreshold(scopes[i])
          /\ TotalScopeCost(scopes[i - 1]) < CommandListCostThreshold(scopes[i - 1])
          /\ ~ChainMember(i + 1) /\ ~ChainMember(i - 2)
          /\ \E g \in GroupIndices : groups[g].type = "Primary" /\ groups[g].scopes = <<i + 1>>

\* C7: in force-serial mode every execute group holds exactly one scope: a
\* Secondary group with one command buffer for a subpass-chain scope, a
\* Primary group for any other; there are as many groups as scopes passed and
\* the merge set is empty after each scope.
C7_SerialOneScopePerGroup ==
    /\ mergedScopes = <<>>
    /\ Len(groups) = it - 1
    /\ \A g \in GroupIndices :
          /\ groups[g].scopes = <<g>>
          /\ IF ChainMember(g)
             THEN groups[g].type = "Secondary" /\ groups[g].commandListCount = 1
             ELSE groups[g].type = "Primary"

C7_Witness ==
    /\ pc = "done"
    /\ Len(groups) = MaxScopes
    /\ \E g \in GroupIndices : groups[g].type = "Secondary"
    /\ \E g \in GroupIndices : g > 1 /\ groups[g].type = "Primary" /\ groups[g - 1].type = "Primary"

\* C8 as stated: the accumulated cost of a Primary group does not exceed the
\* command-list cost threshold configured for the device of the group.
C8_CostWithinConfiguredThreshold ==
    \A g \in GroupIndices :
        groups[g].type = "Primary" =>
            GroupCost(g) <= m_frameGraphExecuterData[groups[g].device].m_commandListCostThresholdMin

\* C8 amended: the accumulated cost of a Primary group (and of the pending
\* merge set) does not exceed the command-list cost threshold computed for
\* the scope merged last, the larger of the configured minimum of that
\* scope's device and its item count divided by the command lists per scope,
\* rounded up.
C8_CostWithinThresholdOfLastMerged ==
    /\ \A g \in GroupIndices :
          groups[g].type = "Primary" =>
              GroupCost(g) <= CommandListCostThreshold(scopes[Last(groups[g].scopes)])
    /\ mergedScopes # <<>> =>
          /\ mergedGroupCost <= CommandListCostThreshold(scopes[Last(mergedScopes)])
          /\ mergedGroupCost = SumSeq([k \in 1..Len(mergedScopes) |->
                                         TotalScopeCost(scopes[mergedScopes[k]])])

\* A group whose cost reaches the threshold of its last scope exactly, and
\* another that was flushed because the next scope would have exceeded it.
C8_Witness ==
    /\ pc = "done"
    /\ \E g \in GroupIndices :
          /\ groups[g].type = "Primary"
          /\ Len(groups[g].scopes) >= 2
          /\ GroupCost(g) = CommandListCostThreshold(scopes[Last(groups[g].scopes)])
          /\ g < Len(groups)
          /\ groups[g + 1].type = "Primary"

----------------------------------------------------------------------------
\* The type and the scopes of every group, in the order of the group list.
GroupList == [g \in GroupIndices |-> <<groups[g].type, groups[g].scopes>>]

\* The input of the worked example: A, B, C with three different group ids.
ExampleInput ==
    /\ Len(scopes) = 3
    /\ scopes[1] = WithGroupId(ExampleA, 1)
    /\ scopes[2] = WithGroupId(ExampleB, 2)
    /\ scopes[3] = WithGroupId(ExampleC, 3)

\* C13 as stated: for A (cost 10), B (cost 15), C (cost 5, a group id of its
\* own) and threshold 20 the groups are Primary{A}, Primary{B}, Secondary{C}.
C13_ExampleGroupsAsStated ==
    (pc = "done" /\ ExampleInput) =>
        GroupList = << <<"Primary", <<1>> >>, <<"Primary", <<2>> >>, <<"Secondary", <<3>> >> >>

\* C13, amended: the groups are Primary{A}, Primary{B, C}.  No neighbour of C
\* shares its group id, so C is no chain member, and 15 + 5 does not exceed 20.
C13_ExampleGroups ==
    (pc = "done" /\ ExampleInput) =>
        GroupList = << <<"Primary", <<1>> >>, <<"Primary", <<2, 3>> >> >>

C13_Witness == pc = "done" /\ ExampleInput /\ Len(groups) = 2

\* The maximal contiguous run of groups sharing the group id of group g.
SameIdBetween(a, b) == \A k \in a..b : groups[k].groupId = groups[a].groupId

RunFirst(g) == CHOOSE a \in 1..g : SameIdBetween(a, g) /\ (a = 1 \/ ~SameIdBetween(a - 1, g))

RunLast(g) ==
    CHOOSE b \in g..Len(groups) :
        SameIdBetween(g, b) /\ (b = Len(groups) \/ ~SameIdBetween(g, b + 1))

HandlerMembers(groupId) ==
    { m_groupHandlers[groupId].groups[k] : k \in 1..Len(m_groupHandlers[groupId].groups) }

\* C16: after Begin every maximal contiguous run of groups sharing a group id
\* has one handler, which owns exactly the groups of the run in order; no
\* handler is empty or stored under another id than that of its groups; the
\* handler is a primary handler iff the run is a single Primary group.
C16_OneHandlerPerRun ==
    pc = "done" =>
        /\ \A g \in GroupIndices :
              /\ groups[g].groupId \in DOMAIN m_groupHandlers
              /\ HandlerMembers(groups[g].groupId) = RunFirst(g)..RunLast(g)
              /\ Ascending(m_groupHandlers[groups[g].groupId].groups)
              /\ (m_groupHandlers[groups[g].groupId].type = "PrimaryHandler")
                    <=> (RunFirst(g) = RunLast(g) /\ groups[g].type = "Primary")
        /\ \A id \in DOMAIN m_groupHandlers :
              /\ m_groupHandlers[id].groups # <<>>
              /\ \A g \in HandlerMembers(id) : g \in GroupIndices /\ groups[g].groupId = id
              /\ m_groupHandlers[id].type \in {"PrimaryHandler", "SecondaryHandler"}

\* C17: the groups are created in scope order.  Every group covers a
\* contiguous run of the scope list, the scopes of an earlier group precede
\* those of a later group, and no group holds a scope that comes after a scope
\* still pending in the merge set.
C17_GroupsInScopeOrder ==
    /\ \A g \in GroupIndices :
          \A k \in 1..(Len(groups[g].scopes) - 1) :
              groups[g].scopes[k + 1] = groups[g].scopes[k] + 1
    /\ \A g1 \in GroupIndices, g2 \in GroupIndices :
          g1 < g2 => \A a \in Members(g1), b \in Members(g2) : a < b
    /\ \A g \in GroupIndices, k \in 1..Len(mergedScopes) :
          \A a \in Members(g) : a < mergedScopes[k]

\* The swap chains the scopes of group g present.
GroupSwapChains(g) ==
    SumSeq([k \in 1..Len(groups[g].scopes) |-> scopes[groups[g].scopes[k]].swap])

\* C21: the scopes of a Primary group together present no more swap chains
\* than m_swapChainsPerCommandList of the group's device allows.
C21_SwapChainsWithinLimit ==
    \A g \in GroupIndices :
        groups[g].type = "Primary" =>
            GroupSwapChains(g)
                <= m_frameGraphExecuterData[groups[g].device].m_swapChainsPerCommandList

\* The fences of a map whose flag says "not waited".
NotWaited(map) == { f \in DOMAIN map : ~map[f] }

\* C25: in Begin's bookkeeping numUnwaitedFences is the number of fences of
\* userFencesSignalledMap flagged "not waited", before and after every step;
\* an iteration at a scope that presents a swap chain adds to the expected
\* count of the current tracker the waits of the scope and exactly the fences
\* signalled since the map was last cleared that no scope waited for, and
\* leaves the counter at 0 and the map empty.
C25_UnwaitedFencesFolded ==
    [][/\ numUnwaitedFences = Cardinality(NotWaited(userFencesSignalledMap))
       /\ numUnwaitedFences' = Cardinality(NotWaited(userFencesSignalledMap'))
       /\ (pc = "loop" /\ it' # it /\ useSemaphoreTrackers /\ scopes[it].swap > 0) =>
             LET s == scopes[it]
                 folded == Cardinality(
                              (NotWaited(userFencesSignalledMap)
                                 \cup (s.sigFences \ DOMAIN userFencesSignalledMap))
                                \ s.waitFences)
                 base == IF Len(m_trackers') > Len(m_trackers)
                         THEN m_semaphoreCount
                         ELSE Last(m_trackers).m_semaphoreCounter
             IN  /\ numUnwaitedFences' = 0
                 /\ userFencesSignalledMap' = [f \in {} |-> FALSE]
                 /\ Last(m_trackers').m_semaphoreCounter
                       = base + s.waitSem + Cardinality(s.waitFences) + folded
      ]_vars

\* Two fences signalled by the first scope and waited for by none were folded
\* into the tracker of the swap chain the second scope presents.
C25_Witness ==
    /\ pc = "done"
    /\ useSemaphoreTrackers
    /\ Len(scopes) >= 2
    /\ scopes[1].sigFences = {"F1", "F2"}
    /\ scopes[2].swap = 1
    /\ m_trackers[1].m_semaphoreCounter = 2
    /\ numUnwaitedFences = 0
    /\ userFencesSignalledMap = [f \in {} |-> FALSE]

\* The tracker list after SemaphoreTrackerCollection::SignalSemaphores
\* (lines 64-70): trackers [0, countTrackers) receive the amount.
CollectionSignalSemaphores(trackers, countTrackers, numSemaphores) ==
    [k \in 1..Len(trackers) |->
        IF k <= countTrackers
        THEN [trackers[k] EXCEPT !.m_signalledSemaphoreCounter = @ + numSemaphores]
        ELSE trackers[k]]

\* The semaphores line 213 counted for the scopes of group g; the submission
\* of the group signals them through the handle the group was given.
SemaphoresOf(g) ==
    SumSeq([k \in 1..Len(groups[g].scopes) |->
              scopes[groups[g].scopes[k]].waitSem
                + Cardinality(scopes[groups[g].scopes[k]].waitFences)])

\* The tracker list once the groups g..Len(groups) have signalled.
RECURSIVE SignalGroups(_, _)
SignalGroups(trackers, g) ==
    IF g > Len(groups) THEN trackers
    ELSE SignalGroups(
            CollectionSignalSemaphores(trackers, groups[g].handle, SemaphoresOf(g)),
            g + 1)

NoFences == \A i \in 1..Len(scopes) : scopes[i].sigFences = {} /\ scopes[i].waitFences = {}

\* C11: in a frame without user fences, once every execute group has signalled
\* its semaphores, the tracker bound to each presented swap chain has received
\* exactly its expected count.
C11_PresentWaitSatisfiedExactly ==
    (pc = "done" /\ useSemaphoreTrackers /\ NoFences) =>
        \A b \in 1..Len(swapChainTracker) :
            LET tracker == SignalGroups(m_trackers, 1)[swapChainTracker[b][2]]
            IN  tracker.m_signalledSemaphoreCounter = tracker.m_semaphoreCounter

----------------------------------------------------------------------------

\* Properties of the execution of the groups

\* C2: however the worker threads that call ExecuteGroup for the groups of a
\* handler interleave, End() is invoked at most once on the handler.
C2_EndInvokedOnce == \A id \in DOMAIN endCalls : endCalls[id] <= 1

----------------------------------------------------------------------------
\* C14: End() is invoked on a handler, or about to be invoked by a worker
\* that has passed the check, only when every execute group the handler owns
\* has finished recording.
C14_EndOnlyAfterAllGroupsComplete ==
    pc = "done" =>
        \A g \in GroupIndices :
            (workers[g] = "end" \/ endCalls[groups[g].groupId] > 0) =>
                \A k \in 1..Len(m_groupHandlers[groups[g].groupId].groups) :
                    m_isComplete[m_groupHandlers[groups[g].groupId].groups[k]]

\* End() has run on a handler that owns two groups.
C14_Witness ==
    /\ pc = "done"
    /\ \E g \in GroupIndices :
          /\ endCalls[groups[g].groupId] > 0
          /\ Len(m_groupHandlers[groups[g].groupId].groups) >= 2

----------------------------------------------------------------------------

\* C18: between Begin and End the handler map holds, under the group id of
\* every execute group, the handler that owns the group, and no worker fails
\* the lookup assertion of ExecuteGroup.
C18_EveryGroupFindsItsHandler ==
    pc = "done" =>
        \A g \in GroupIndices :
            /\ workers[g] # "assertFailed"
            /\ groups[g].groupId \in DOMAIN m_groupHandlers
            /\ g \in HandlerMembers(groups[g].groupId)

----------------------------------------------------------------------------

\* C19: once Begin has built the handlers, and the jobs record their groups
\* and call ExecuteGroup, End() is eventually invoked on the handler of every
\* group, while the handler map is still in place.
C19_CompleteHandlerIsFinalized ==
    (pc = "done") ~>
        (pc = "done" /\ \A g \in GroupIndices : endCalls[groups[g].groupId] >= 1)

\* Two groups of one handler: both jobs have returned from ExecuteGroup, the
\* first without calling End(), and End() has run once.
C19_Witness ==
    /\ pc = "done"
    /\ \E g1 \in GroupIndices, g2 \in GroupIndices :
          /\ g1 # g2
          /\ groups[g1].groupId = groups[g2].groupId
          /\ workers[g1] = "returned"
          /\ workers[g2] = "returned"
          /\ endCalls[groups[g1].groupId] = 1

----------------------------------------------------------------------------

\* Properties of the semaphore trackers

\* C9: a thread has returned from WaitForSignalAllSemaphores only if the
\* amount signalled on its tracker has reached the expected count of the
\* tracker; none returns while signalled < expected, whatever the interleaving
\* of the signalling and the waiting threads.
C9_WaitReturnsAfterAllSignalled ==
    phase = "run" =>
        \A w \in WaitThreads :
            waiters[w].pc = "returned" =>
                m_trackers[waiters[w].tracker].m_signalledSemaphoreCounter
                    >= m_trackers[waiters[w].tracker].m_semaphoreCounter

\* A thread that had to block has returned, its tracker expects semaphores
\* and all of them are signalled.
C9_Witness ==
    /\ phase = "run"
    /\ \E w \in WaitThreads :
          /\ waiters[w].pc = "returned"
          /\ waiters[w].hasBlocked
          /\ m_trackers[waiters[w].tracker].m_semaphoreCounter > 0
          /\ m_trackers[waiters[w].tracker].m_signalledSemaphoreCounter
                = m_trackers[waiters[w].tracker].m_semaphoreCounter

\* C10: the signalled count of a tracker never exceeds its expected count,
\* also when the signals are fanned out through the handles of a collection.
C10_SignalledNeverExceedsExpected ==
    \A k \in 1..Len(m_trackers) :
        m_trackers[k].m_signalledSemaphoreCounter <= m_trackers[k].m_semaphoreCounter

\* C12: AddSemaphores on a collection without a tracker is a valid call, and
\* the tracker CreateHandle creates next expects the semaphores added so far.
C12_AddSemaphoresBeforeCreateHandle ==
    /\ phase # "crashed"
    /\ (phase = "setup" /\ Len(m_trackers) = 1) =>
           m_trackers[1].m_semaphoreCounter = m_semaphoreCount

----------------------------------------------------------------------------
\* Properties of Init

\* C15: Init returns Success only when every descriptor of the map was of the
\* backend's type and its limits were stored; a malformed one gives a failure.
C15_SuccessOnlyIfAllDescriptorsAccepted ==
    initResult = "Success" =>
        \A d \in DOMAIN descriptor :
            /\ CastSucceeds(descriptor[d])
            /\ d \in DOMAIN m_frameGraphExecuterData
            /\ m_frameGraphExecuterData[d] = descriptor[d].m_frameGraphExecuterData

----------------------------------------------------------------------------
\* C22: CreateHandle appends one tracker that expects the running total and
\* has nothing signalled, and its handle holds the number of trackers then in
\* the collection; the count of a handle never changes; a SignalSemaphores
\* call on a handle adds its amount to the trackers 1, 2, ... up to the
\* count of the handle, once each, and to no tracker behind it.
C22_HandleSignalsItsSnapshot ==
    [][/\ Len(handles') >= Len(handles)
       /\ \A h \in 1..Len(handles) : handles'[h] = handles[h]
       /\ Len(m_trackers') # Len(m_trackers) =>
             /\ m_trackers' = Append(m_trackers,
                                     [m_semaphoreCounter |-> m_semaphoreCount,
                                      m_signalledSemaphoreCounter |-> 0])
             /\ handles' = Append(handles, Len(m_trackers) + 1)
       /\ \A k \in 1..Len(m_trackers) :
             m_trackers'[k].m_signalledSemaphoreCounter
                   # m_trackers[k].m_signalledSemaphoreCounter =>
                \E s \in SignalThreads :
                    /\ signalers[s].pc = "add"
                    /\ signalers[s].i = k
                    /\ k <= handles[signalers[s].handle]
                    /\ signalers'[s].pc # "add"
                    /\ m_trackers'[k].m_signalledSemaphoreCounter
                          = m_trackers[k].m_signalledSemaphoreCounter + signalers[s].n
       /\ \A s \in SignalThreads :
             /\ (signalers[s].pc = "idle" /\ signalers'[s].pc # "idle") =>
                   signalers'[s].i = 1
             /\ (signalers[s].pc # "idle" /\ signalers'[s].pc # "idle") =>
                   /\ signalers'[s].handle = signalers[s].handle
                   /\ signalers'[s].n = signalers[s].n
                   /\ signalers'[s].i \in {signalers[s].i, signalers[s].i + 1}
                   /\ signalers'[s].i # signalers[s].i =>
                         signalers[s].pc \in {"add", "notify"}
             /\ (signalers[s].pc # "idle" /\ signalers'[s].pc = "idle") =>
                   /\ signalers[s].pc \in {"add", "notify"}
                   /\ signalers[s].i = handles[signalers[s].handle]
      ]_vars

\* The first of two handles has signalled and no call is under way: the first
\* tracker has the amount, the tracker created later has nothing.
C22_Witness ==
    /\ phase = "run"
    /\ Len(m_trackers) = 2
    /\ handles = <<1, 2>>
    /\ m_trackers[1].m_signalledSemaphoreCounter > 0
    /\ m_trackers[2].m_signalledSemaphoreCounter = 0
    /\ m_trackers[2].m_semaphoreCounter > m_trackers[1].m_semaphoreCounter
    /\ \A s \in SignalThreads : signalers[s].pc = "idle"

\* C23: AddSemaphores(k) on a collection that has a tracker raises the
\* expected count of the newest tracker and the running total by k; the
\* earlier trackers and the signalled count of the newest stay as they are.
C23_AddSemaphoresTouchesNewestOnly ==
    [][(m_semaphoreCount' # m_semaphoreCount /\ Len(m_trackers) > 0) =>
          /\ Len(m_trackers') = Len(m_trackers)
          /\ m_trackers'[Len(m_trackers)].m_semaphoreCounter
                = m_trackers[Len(m_trackers)].m_semaphoreCounter
                    + (m_semaphoreCount' - m_semaphoreCount)
          /\ m_trackers'[Len(m_trackers)].m_signalledSemaphoreCounter
                = m_trackers[Len(m_trackers)].m_signalledSemaphoreCounter
          /\ \A k \in 1..(Len(m_trackers) - 1) : m_trackers'[k] = m_trackers[k]
      ]_vars

\* Semaphores were added after the second tracker was created, and some
\* before: the two trackers expect different counts.
C23_Witness ==
    /\ phase = "setup"
    /\ Len(m_trackers) = 2
    /\ m_trackers[1].m_semaphoreCounter > 0
    /\ m_trackers[2].m_semaphoreCounter > m_trackers[1].m_semaphoreCounter
    /\ m_semaphoreCount = m_trackers[2].m_semaphoreCounter

\* C24: a step that changes a counter of a tracker is taken with m_lock of
\* that tracker held, and a thread that compares the counters holds it too.
C24_CountersChangeUnderLock ==
    [][/\ \A k \in 1..Len(m_trackers) :
             m_trackers'[k] # m_trackers[k] => m_lock[k] # "free"
       /\ \A w \in WaitThreads :
             waiters[w].pc = "check" => m_lock[waiters[w].tracker] = w
      ]_vars

\* Liveness of the semaphore trackers

\* Everything that will be signalled on tracker k has been added, and it is
\* the expected count: no handle that reaches k has semaphores left and no
\* thread is about to add to k.
AllSignalled(k) ==
    /\ m_trackers[k].m_signalledSemaphoreCounter = m_trackers[k].m_semaphoreCounter
    /\ \A h \in 1..Len(handles) : handles[h] >= k => owed[h] = 0
    /\ \A s \in SignalThreads :
          signalers[s].pc \in {"lock", "add"} => handles[signalers[s].handle] < k
                                                    \/ signalers[s].i > k

\* C20: once the amount signalled on a tracker has reached the expected
\* count, every thread waiting on the tracker eventually returns from
\* WaitForSignalAllSemaphores, whether it was blocked before or enters later.
C20_WaitersReturnOnceAllSignalled ==
    \A w \in WaitThreads :
        (phase = "run" /\ AllSignalled(waiters[w].tracker))
            ~> (waiters[w].pc = "returned")

\* Both threads wait on one tracker that expects two semaphores, signalled by
\* two calls; both have blocked and both have returned.
C20_Witness ==
    /\ phase = "run"
    /\ waiters["w1"].tracker = waiters["w2"].tracker
    /\ m_trackers[waiters["w1"].tracker].m_semaphoreCounter = 2
    /\ \A w \in WaitThreads : waiters[w].hasBlocked /\ waiters[w].pc = "returned"

====
